---- MODULE Spec2Model ----
(***************************************************************************)
(* A model of the KnapSack node (kpsk): the content addresser              *)
(* (src/video.rs), the SQLite chunk store (src/storage.rs) and the         *)
(* network event loop (src/network.rs).                                    *)
(*                                                                         *)
(* Spec is the whole node. Its three components share no variable and     *)
(* each has a specification of its own, in which the other two stay put:   *)
(*   SpecVideo  the file system and the prep command (prep_video), which   *)
(*              calls VideoProcessor::prepare_video                        *)
(*   SpecStore  Storage::store_video / Storage::store_chunk                *)
(*   SpecNet    NetworkManager::run and the events the swarm hands it      *)
(* main constructs no Storage: Spec leaves the store as Init has it, and   *)
(* SpecStore drives the interface of Storage for any caller.               *)
(***************************************************************************)
EXTENDS Integers, Sequences, FiniteSets

VARIABLES
    files,          \* the file system: path -> contents, or NoFile
    last,           \* the most recent prepare_video call: path, bytes read, result
    conn,           \* the Storage: whether it is open, and whether its SQLite
                    \* enforces FOREIGN KEY clauses
    videos,         \* table videos: rows (hash, metadata) in rowid order
    chunks,         \* table chunks: rows (hash, video_hash, data) in rowid order
    lastOp,         \* the most recent Storage call, its arguments and result
    pc,             \* NetworkManager::run: "start" before listen_on, then "loop"
    swarm_events,   \* events the swarm has ready for select_next_some()
    inbound,        \* inbound request id -> what became of it
    stdout          \* the line run() printed last

videoVars == <<files, last>>
storeVars == <<conn, videos, chunks, lastOp>>
netVars   == <<pc, swarm_events, inbound, stdout>>
vars      == <<files, last, conn, videos, chunks, lastOp,
               pc, swarm_events, inbound, stdout>>

(***************************************************************************)
(* Bounds                                                                  *)
(***************************************************************************)
\* longest file content the environment writes
MaxLen == 2
\* prep_video reads files fewer than MaxDepth generations away from a file
\* of the environment (generation k + 1: the metadata files written for
\* files of generation k)
MaxDepth == 2
\* most bytes a std::fs::write that fails has written into the file
MaxPartial == 1
\* inbound request ids are 1..MaxRequests
MaxRequests == 2
\* most events the swarm buffers before the loop takes one
MaxQueue == 2

\* byte values that occur in the files of the environment
Bytes == {0, 255}
\* the paths: "a.mp4" and "a.json" as UTF-8 bytes
Paths == {<<97, 46, 109, 112, 52>>, <<97, 46, 106, 115, 111, 110>>}

RECURSIVE SeqsUpTo(_, _)
SeqsUpTo(S, n) ==
    IF n = 0 THEN {<<>>}
    ELSE LET shorter == SeqsUpTo(S, n - 1)
         IN  shorter \cup {Append(s, x) : s \in {t \in shorter : Len(t) = n - 1}, x \in S}

\* what the environment writes into a file
Contents == SeqsUpTo(Bytes, MaxLen)
\* a path with no file behind it, and the files the environment puts there
NoFile   == [exists |-> FALSE, bytes |-> <<>>]
FileOf(content) == [exists |-> TRUE, bytes |-> content]
FileStates == {NoFile} \cup {FileOf(c) : c \in Contents}

(***************************************************************************)
(* src/video.rs                                                            *)
(***************************************************************************)
\* Sha256 (crate sha2), computed as FIPS 180-4 defines it. A 32-bit word is
\* the pair <<high 16 bits, low 16 bits>>, so that no sum leaves 32 bits.
\* The operations are functions: their arguments are values when applied.

\* the round constants K[0..63] of SHA-256
Sha256K ==
    <<
       <<17034, 12184>>, <<28983, 17553>>, <<46528, 64463>>, <<59829, 56229>>,
       <<14678, 49755>>, <<23025, 4593>>, <<37439, 33444>>, <<43804, 24277>>,
       <<55303, 43672>>, <<4739, 23297>>, <<9265, 34238>>, <<21772, 32195>>,
       <<29374, 23924>>, <<32990, 45566>>, <<39900, 1703>>, <<49563, 61812>>,
       <<58523, 27073>>, <<61374, 18310>>, <<4033, 40390>>, <<9228, 41420>>,
       <<11753, 11375>>, <<19060, 33962>>, <<23728, 43484>>, <<30457, 35034>>,
       <<38974, 20818>>, <<43057, 50797>>, <<45059, 10184>>, <<48985, 32711>>,
       <<50912, 3059>>, <<54695, 37191>>, <<1738, 25425>>, <<5161, 10599>>,
       <<10167, 2693>>, <<11803, 8504>>, <<19756, 28156>>, <<21304, 3347>>,
       <<25866, 29524>>, <<30314, 2747>>, <<33218, 51502>>, <<37490, 11397>>,
       <<41663, 59553>>, <<43034, 26187>>, <<49739, 35696>>, <<51052, 20899>>,
       <<53650, 59417>>, <<54937, 1572>>, <<62478, 13701>>, <<4202, 41072>>,
       <<6564, 49430>>, <<7735, 27656>>, <<10056, 30540>>, <<13488, 48309>>,
       <<14620, 3251>>, <<20184, 43594>>, <<23452, 51791>>, <<26670, 28659>>,
       <<29839, 33518>>, <<30885, 25455>>, <<33992, 30740>>, <<36039, 520>>,
       <<37054, 65530>>, <<42064, 27883>>, <<48889, 41975>>, <<50801, 30962>>
    >>

\* the initial hash value H(0) of SHA-256
Sha256H0 ==
    <<
       <<27145, 58983>>, <<47975, 44677>>, <<15470, 62322>>, <<42319, 62778>>,
       <<20750, 21119>>, <<39685, 26764>>, <<8067, 55723>>, <<23520, 52505>>
    >>

Half == 0..65535
Word == Seq(Half)

\* bitwise operations on 16-bit halves, bit by bit
Xor16[a \in Half, b \in Half] ==
    IF a = 0 THEN b
    ELSE IF b = 0 THEN a
    ELSE ((a + b) % 2) + 2 * Xor16[a \div 2, b \div 2]

And16[a \in Half, b \in Half] ==
    IF a = 0 \/ b = 0 THEN 0
    ELSE ((a % 2) * (b % 2)) + 2 * And16[a \div 2, b \div 2]

WXor[x \in Word, y \in Word] == <<Xor16[x[1], y[1]], Xor16[x[2], y[2]]>>
WAnd[x \in Word, y \in Word] == <<And16[x[1], y[1]], And16[x[2], y[2]]>>
WNot[x \in Word] == <<65535 - x[1], 65535 - x[2]>>
\* wrapping_add
WAdd[x \in Word, y \in Word] ==
    <<(x[1] + y[1] + ((x[2] + y[2]) \div 65536)) % 65536, (x[2] + y[2]) % 65536>>

Rotr[x \in Word, n \in 0..31] ==
    IF n >= 16 THEN Rotr[<<x[2], x[1]>>, n - 16]
    ELSE IF n = 0 THEN x
    ELSE <<(x[1] \div 2 ^ n) + (x[2] % 2 ^ n) * 2 ^ (16 - n),
           (x[2] \div 2 ^ n) + (x[1] % 2 ^ n) * 2 ^ (16 - n)>>

Shr[x \in Word, n \in 1..15] ==
    <<x[1] \div 2 ^ n, (x[2] \div 2 ^ n) + (x[1] % 2 ^ n) * 2 ^ (16 - n)>>

SmallSigma0[x \in Word] == WXor[WXor[Rotr[x, 7], Rotr[x, 18]], Shr[x, 3]]
SmallSigma1[x \in Word] == WXor[WXor[Rotr[x, 17], Rotr[x, 19]], Shr[x, 10]]
BigSigma0[x \in Word]   == WXor[WXor[Rotr[x, 2], Rotr[x, 13]], Rotr[x, 22]]
BigSigma1[x \in Word]   == WXor[WXor[Rotr[x, 6], Rotr[x, 11]], Rotr[x, 25]]
Ch[e \in Word, f \in Word, g \in Word]  == WXor[WAnd[e, f], WAnd[WNot[e], g]]
Maj[a \in Word, b \in Word, c \in Word] == WXor[WXor[WAnd[a, b], WAnd[a, c]], WAnd[b, c]]

\* the message with the padding: 0x80, zeros, the bit length (8 * Len) as
\* 64 bits big-endian, each byte taken from Len so that no product is formed
Sha256Pad(msg) ==
    msg \o <<128>> \o [i \in 1..((119 - (Len(msg) % 64)) % 64) |-> 0]
        \o <<0, 0, 0,
              (Len(msg) \div 536870912) % 256,
              (Len(msg) \div 2097152) % 256,
              (Len(msg) \div 8192) % 256,
              (Len(msg) \div 32) % 256,
              (Len(msg) % 32) * 8>>

\* the 16 big-endian words of a 64-byte block
BlockWords[block \in Seq(0..255)] ==
    [j \in 1..16 |-> <<block[4 * j - 3] * 256 + block[4 * j - 2],
                       block[4 * j - 1] * 256 + block[4 * j]>>]

\* the message schedule: 16 words extended to 64
Schedule[w \in Seq(Word)] ==
    IF Len(w) = 64 THEN w
    ELSE Schedule[Append(w, WAdd[WAdd[SmallSigma1[w[Len(w) - 1]], w[Len(w) - 6]],
                                 WAdd[SmallSigma0[w[Len(w) - 14]], w[Len(w) - 15]]])]

Temp1[s \in Seq(Word), k \in Word, wt \in Word] ==
    WAdd[WAdd[WAdd[s[8], BigSigma1[s[5]]], WAdd[Ch[s[5], s[6], s[7]], k]], wt]

Temp2[s \in Seq(Word)] == WAdd[BigSigma0[s[1]], Maj[s[1], s[2], s[3]]]

Round[s \in Seq(Word), t1 \in Word, t2 \in Word] ==
    <<WAdd[t1, t2], s[1], s[2], s[3], WAdd[s[4], t1], s[5], s[6], s[7]>>

\* rounds t..64 of the compression function on working variables s
Rounds[s \in Seq(Word), w \in Seq(Word), t \in 1..65] ==
    IF t > 64 THEN s
    ELSE Rounds[Round[s, Temp1[s, Sha256K[t], w[t]], Temp2[s]], w, t + 1]

Compress[h \in Seq(Word), s \in Seq(Word)] == [i \in 1..8 |-> WAdd[h[i], s[i]]]

Blocks[h \in Seq(Word), padded \in Seq(0..255)] ==
    IF padded = <<>> THEN h
    ELSE Blocks[Compress[h, Rounds[h, Schedule[BlockWords[SubSeq(padded, 1, 64)]], 1]],
                SubSeq(padded, 65, Len(padded))]

DigestBytes[h \in Seq(Word)] ==
    [i \in 1..32 |->
        IF i % 4 = 1 THEN h[(i + 3) \div 4][1] \div 256
        ELSE IF i % 4 = 2 THEN h[(i + 3) \div 4][1] % 256
        ELSE IF i % 4 = 3 THEN h[(i + 3) \div 4][2] \div 256
        ELSE h[(i + 3) \div 4][2] % 256]

\* SHA-256 of a byte sequence, as its 32 bytes
Sha256Compute(msg) == DigestBytes[Blocks[Sha256H0, Sha256Pad(msg)]]

\* one lower-case hex digit as its ASCII code
HexChar(d) == IF d < 10 THEN 48 + d ELSE 87 + d

\* hex::encode: two lower-case hex digits per byte
RECURSIVE hex_encode(_)
hex_encode(bytes) ==
    IF bytes = <<>> THEN <<>>
    ELSE <<HexChar(Head(bytes) \div 16), HexChar(Head(bytes) % 16)>>
         \o hex_encode(Tail(bytes))

\* the single ChunkMetadata: the whole file, at order 0
ChunkOf(hash_hex, buffer) ==
    [hash |-> hash_hex, size |-> Len(buffer), order |-> 0]

\* the VideoMetadata prepare_video builds for a file of this digest
Metadata(hash_hex, buffer) ==
    [hash        |-> hash_hex,
     chunks      |-> <<ChunkOf(hash_hex, buffer)>>,
     duration    |-> 0,
     codec       |-> "mp4",
     title       |-> "Untitled",
     description |-> "No description"]

\* the string literals of the program as UTF-8
Utf8(str) ==
    CASE
           str = "" -> <<>>
        [] str = "hash" -> <<104, 97, 115, 104>>
        [] str = "chunks" -> <<99, 104, 117, 110, 107, 115>>
        [] str = "duration" -> <<100, 117, 114, 97, 116, 105, 111, 110>>
        [] str = "codec" -> <<99, 111, 100, 101, 99>>
        [] str = "title" -> <<116, 105, 116, 108, 101>>
        [] str = "description" -> <<100, 101, 115, 99, 114, 105, 112, 116, 105, 111, 110>>
        [] str = "size" -> <<115, 105, 122, 101>>
        [] str = "order" -> <<111, 114, 100, 101, 114>>
        [] str = "json" -> <<106, 115, 111, 110>>
        [] str = "mp4" -> <<109, 112, 52>>
        [] str = "Untitled" -> <<85, 110, 116, 105, 116, 108, 101, 100>>
        [] str = "No description" -> <<78, 111, 32, 100, 101, 115, 99, 114, 105, 112, 116, 105, 111, 110>>

\* serde_json: one byte of a string, escaped
JsonEscapeByte(c) ==
    IF c = 34 THEN <<92, 34>>
    ELSE IF c = 92 THEN <<92, 92>>
    ELSE IF c = 8 THEN <<92, 98>>
    ELSE IF c = 9 THEN <<92, 116>>
    ELSE IF c = 10 THEN <<92, 110>>
    ELSE IF c = 12 THEN <<92, 102>>
    ELSE IF c = 13 THEN <<92, 114>>
    ELSE IF c < 32 THEN <<92, 117, 48, 48, HexChar(c \div 16), HexChar(c % 16)>>
    ELSE <<c>>

RECURSIVE JsonEscape(_)
JsonEscape(str) ==
    IF str = <<>> THEN <<>>
    ELSE JsonEscapeByte(Head(str)) \o JsonEscape(Tail(str))

\* serde_json: a String
JsonString(str) == <<34>> \o JsonEscape(str) \o <<34>>

\* serde_json: a usize, in decimal
RECURSIVE JsonUsize(_)
JsonUsize(n) ==
    IF n < 10 THEN <<48 + n>>
    ELSE JsonUsize(n \div 10) \o <<48 + (n % 10)>>

\* serde_json: an f64 with no fraction (below 10^16), as in 0.0
JsonF64(d) == JsonUsize(d) \o <<46, 48>>

\* "name": in front of a field
JsonKey(name) == JsonString(Utf8(name)) \o <<58>>

\* serde_json: a ChunkMetadata, fields in the order of the struct
JsonChunk(chunk) ==
    <<123>> \o JsonKey("hash") \o JsonString(chunk.hash)
        \o <<44>> \o JsonKey("size") \o JsonUsize(chunk.size)
        \o <<44>> \o JsonKey("order") \o JsonUsize(chunk.order)
        \o <<125>>

\* serde_json: the elements of a Vec<ChunkMetadata>, separated by commas
RECURSIVE JsonChunks(_)
JsonChunks(cs) ==
    IF cs = <<>> THEN <<>>
    ELSE IF Len(cs) = 1 THEN JsonChunk(cs[1])
    ELSE JsonChunk(Head(cs)) \o <<44>> \o JsonChunks(Tail(cs))

\* serde_json::to_string(&metadata): compact, fields in the order of the
\* struct
to_string(metadata) ==
    <<123>> \o JsonKey("hash") \o JsonString(metadata.hash)
        \o <<44>> \o JsonKey("chunks")
        \o <<91>> \o JsonChunks(metadata.chunks) \o <<93>>
        \o <<44>> \o JsonKey("duration") \o JsonF64(metadata.duration)
        \o <<44>> \o JsonKey("codec") \o JsonString(Utf8(metadata.codec))
        \o <<44>> \o JsonKey("title") \o JsonString(Utf8(metadata.title))
        \o <<44>> \o JsonKey("description")
        \o JsonString(Utf8(metadata.description))
        \o <<125>>

\* the first n bytes of contents, all of them when it has no more
Prefix(contents, n) ==
    IF n < Len(contents) THEN SubSeq(contents, 1, n) ELSE contents

\* generation 0: what the environment writes; generation k + 1: what
\* prep_video leaves in the metadata file for a file of generation k, the
\* whole JSON or, where the write fails, its first bytes
Generation[k \in 0..MaxDepth] ==
    IF k = 0 THEN Contents
    ELSE UNION {{Prefix(to_string(Metadata(hex_encode(Sha256Compute(c)), c)), n) :
                    n \in 0..MaxPartial}
                \cup {to_string(Metadata(hex_encode(Sha256Compute(c)), c))} :
                c \in Generation[k - 1]}

\* the contents prep_video reads
Readable == UNION {Generation[k] : k \in 0..(MaxDepth - 1)}

\* their digests, computed once
Sha256Table == [msg \in Readable |-> Sha256Compute(msg)]

\* Sha256::digest(&buffer)
Sha256_digest(buffer) ==
    IF buffer \in DOMAIN Sha256Table THEN Sha256Table[buffer]
    ELSE Sha256Compute(buffer)

\* VideoProcessor::prepare_video once the file is read into buffer
MetadataOf(buffer) ==
    Metadata(hex_encode(Sha256_digest(buffer)), buffer)

\* what a failed call returns in place of the metadata
NoMetadata ==
    [hash |-> <<>>, chunks |-> <<>>, duration |-> 0, codec |-> "",
     title |-> "", description |-> ""]

\* before any call
NoCall ==
    [path |-> <<>>, read |-> FALSE, input |-> <<>>, ok |-> FALSE,
     err |-> "none", value |-> NoMetadata]

\* VideoProcessor::prepare_video(path) on file system fs: File::open fails
\* on a missing file (the ? returns the io error), every file that is read
\* yields Ok(metadata)
prepare_video(fs, path) ==
    IF path \notin DOMAIN fs \/ ~fs[path].exists
    THEN [path |-> path, read |-> FALSE, input |-> <<>>, ok |-> FALSE,
          err |-> "io", value |-> NoMetadata]
    ELSE [path |-> path, read |-> TRUE, input |-> fs[path].bytes, ok |-> TRUE,
          err |-> "none", value |-> MetadataOf(fs[path].bytes)]

\* the last index of byte c in seq, 0 when there is none
RECURSIVE LastIndexOf(_, _)
LastIndexOf(seq, c) ==
    IF seq = <<>> THEN 0
    ELSE IF seq[Len(seq)] = c THEN Len(seq)
    ELSE LastIndexOf(SubSeq(seq, 1, Len(seq) - 1), c)

\* the path up to the end of its last component: without trailing
\* separators and trailing "." components
RECURSIVE TrimPath(_)
TrimPath(path) ==
    IF Len(path) >= 2 /\ path[Len(path)] = 47
    THEN TrimPath(SubSeq(path, 1, Len(path) - 1))
    ELSE IF Len(path) >= 3 /\ path[Len(path)] = 46 /\ path[Len(path) - 1] = 47
    THEN TrimPath(SubSeq(path, 1, Len(path) - 2))
    ELSE path

\* Path::file_name, where the path has one: its last component
file_name(path) ==
    LET trimmed == TrimPath(path)
    IN  SubSeq(trimmed, LastIndexOf(trimmed, 47) + 1, Len(trimmed))

\* whether Path::file_name is Some: the path does not end in the root, in
\* "." or in ".."
has_file_name(path) == file_name(path) \notin {<<>>, <<46>>, <<46, 46>>}

\* Path::file_stem of a path with a file name: the name up to its last
\* dot; a name with no dot but a leading one is its own stem
file_stem(path) ==
    LET name == file_name(path)
        dot  == LastIndexOf(name, 46)
    IN  IF dot <= 1 THEN name ELSE SubSeq(name, 1, dot - 1)

\* Path::extension: what follows the last dot of the file name, None for
\* a name with no dot but a leading one
extension(path) ==
    LET name == file_name(path)
        dot  == LastIndexOf(name, 46)
    IN  IF ~has_file_name(path) \/ dot <= 1
        THEN [some |-> FALSE, value |-> <<>>]
        ELSE [some |-> TRUE, value |-> SubSeq(name, dot + 1, Len(name))]

\* PathBuf::set_extension: a path with no file name stays as it is; any
\* other is cut at the end of its file stem and gets "." and the extension
set_extension(path, new_extension) ==
    LET trimmed == TrimPath(path)
        start   == LastIndexOf(trimmed, 47)
    IN  IF ~has_file_name(path) THEN path
        ELSE SubSeq(trimmed, 1, start) \o file_stem(path)
                 \o (IF new_extension = <<>> THEN <<>> ELSE <<46>> \o new_extension)

\* Path::with_extension: as many bytes as the previous extension has are
\* cut off the end of the path, then set_extension acts on what is left
\* (for a name like "..a" that is "..", which has no file name)
with_extension(path, new_extension) ==
    LET previous == extension(path)
    IN  set_extension(IF previous.some
                      THEN SubSeq(path, 1, Len(path) - Len(previous.value))
                      ELSE path,
                      new_extension)

\* what the environment lets a std::fs::write do: it refuses to open
\* the file, or the file is opened and the write fails with `written`
\* bytes in it, or the write completes
WriteOutcomes ==
    {[kind |-> "refused", written |-> 0], [kind |-> "completed", written |-> 0]}
        \cup {[kind |-> "cut", written |-> n] : n \in 0..MaxPartial}

\* std::fs::write(path, contents): File::create, which creates the file or
\* truncates it, then write_all. A path with no file name is a directory
\* and is not opened. A write that fails leaves the file with the bytes
\* written until then.
fs_write(fs, path, contents, outcome) ==
    IF ~has_file_name(path) \/ outcome.kind = "refused"
    THEN [files |-> fs, res |-> "Err"]
    ELSE IF outcome.kind = "cut" /\ outcome.written < Len(contents)
    THEN [files |-> [p \in DOMAIN fs \cup {path} |->
                        IF p = path THEN FileOf(Prefix(contents, outcome.written))
                        ELSE fs[p]],
          res   |-> "Err"]
    ELSE [files |-> [p \in DOMAIN fs \cup {path} |->
                        IF p = path THEN FileOf(contents) ELSE fs[p]],
          res   |-> "Ok"]

\* prep_video(media_path) on file system fs: an Err of prepare_video is
\* returned before anything is written; on Ok the metadata, as JSON, is
\* written to media_path.with_extension("json"), which is the file just
\* read when that is a .json file, and an Err of the write is returned
prep_video(fs, media_path, outcome) ==
    LET call          == prepare_video(fs, media_path)
        metadata_path == with_extension(media_path, Utf8("json"))
        write         == fs_write(fs, metadata_path, to_string(call.value), outcome)
    IN  IF ~call.ok
        THEN [call |-> call, files |-> fs, res |-> "Err"]
        ELSE [call |-> call, files |-> write.files, res |-> write.res]

\* the environment writes, replaces or removes a file
WriteFile(path, file) ==
    /\ files[path] # file
    /\ files' = [files EXCEPT ![path] = file]
    /\ UNCHANGED <<last, storeVars, netVars>>

\* the prep command (and add --prep, which calls prep_video and after it
\* only reads): prep_video(path), with the write of the metadata file
\* going as the environment lets it
PrepVideo(path) ==
    /\ files[path].exists => files[path].bytes \in Readable
    /\ \E outcome \in WriteOutcomes :
          /\ files' = prep_video(files, path, outcome).files
          /\ last' = prep_video(files, path, outcome).call
    /\ UNCHANGED <<storeVars, netVars>>

NextVideo ==
    \/ \E path \in Paths, file \in FileStates : WriteFile(path, file)
    \/ \E path \in Paths : PrepVideo(path)

InitVideo ==
    /\ files = [p \in Paths |-> NoFile]
    /\ last = NoCall

(***************************************************************************)
(* src/storage.rs                                                          *)
(***************************************************************************)
\* the TEXT values used as video and chunk hashes
Keys  == {"h1", "h2"}
\* the BLOB values used as metadata and chunk data
Blobs == {<<0>>, <<1>>}

\* whether the table has a row with this primary key
HasRow(table, hash) == \E i \in 1..Len(table) : table[i].hash = hash

\* the table without the row of this primary key
WithoutRow(table, hash) ==
    LET Other(row) == row.hash # hash
    IN  SelectSeq(table, Other)

\* a table without the PRIMARY KEY: every INSERT adds a row
InsertOrReplace_nokey(table, row) == Append(table, row)

\* INSERT OR REPLACE: the row in conflict on the PRIMARY KEY is deleted, the
\* new row is inserted with the next rowid
InsertOrReplace(table, row) == Append(WithoutRow(table, row.hash), row)

\* Storage::store_video. With foreign keys enforced, the REPLACE of a
\* video that chunks reference passes: the parent key is there again when
\* the statement ends.
store_video(fk, vs, cs, hash, metadata) ==
    [videos |-> InsertOrReplace(vs, [hash |-> hash, metadata |-> metadata]),
     chunks |-> cs,
     res    |-> "Ok"]

\* Storage::store_chunk. FOREIGN KEY(video_hash) REFERENCES videos(hash)
\* fails the statement only in a build that enforces foreign keys.
store_chunk(fk, vs, cs, chunk_hash, video_hash, data) ==
    IF fk /\ ~HasRow(vs, video_hash)
    THEN [videos |-> vs, chunks |-> cs, res |-> "ForeignKeyConstraintFailed"]
    ELSE [videos |-> vs,
          chunks |-> InsertOrReplace(cs, [hash |-> chunk_hash,
                                          video_hash |-> video_hash,
                                          data |-> data]),
          res    |-> "Ok"]

\* Storage::new: opens knapsack.db and creates the two tables, empty, if
\* they do not exist. The code sets no PRAGMA foreign_keys, so enforcement
\* is the default of the SQLite it is linked with: off in stock SQLite, on
\* where the library is compiled with SQLITE_DEFAULT_FOREIGN_KEYS=1.
StorageNew(fk) ==
    /\ ~conn.open
    /\ conn' = [open |-> TRUE, foreign_keys |-> fk]
    /\ UNCHANGED <<videos, chunks, lastOp, videoVars, netVars>>

NoOp == [op |-> "none", hash |-> "", video_hash |-> "", blob |-> <<>>,
         res |-> "none", again |-> FALSE]

StoreVideo(hash, metadata) ==
    LET r == store_video(conn.foreign_keys, videos, chunks, hash, metadata)
    IN  /\ conn.open
        /\ videos' = r.videos
        /\ chunks' = r.chunks
        /\ lastOp' = [op |-> "store_video", hash |-> hash, video_hash |-> "",
                      blob |-> metadata, res |-> r.res,
                      again |-> /\ lastOp.op = "store_video"
                                /\ lastOp.hash = hash
                                /\ lastOp.blob = metadata]
        /\ UNCHANGED <<conn, videoVars, netVars>>

StoreChunk(chunk_hash, video_hash, data) ==
    LET r == store_chunk(conn.foreign_keys, videos, chunks, chunk_hash, video_hash, data)
    IN  /\ conn.open
        /\ videos' = r.videos
        /\ chunks' = r.chunks
        /\ lastOp' = [op |-> "store_chunk", hash |-> chunk_hash,
                      video_hash |-> video_hash, blob |-> data, res |-> r.res,
                      again |-> /\ lastOp.op = "store_chunk"
                                /\ lastOp.hash = chunk_hash
                                /\ lastOp.video_hash = video_hash
                                /\ lastOp.blob = data]
        /\ UNCHANGED <<conn, videoVars, netVars>>

NextStore ==
    \/ \E fk \in BOOLEAN : StorageNew(fk)
    \/ \E hash \in Keys, metadata \in Blobs : StoreVideo(hash, metadata)
    \/ \E chunk_hash \in Keys, video_hash \in Keys, data \in Blobs :
           StoreChunk(chunk_hash, video_hash, data)

\* before Storage::new: no connection, and a knapsack.db with no table
InitStore ==
    /\ conn = [open |-> FALSE, foreign_keys |-> FALSE]
    /\ videos = <<>>
    /\ chunks = <<>>
    /\ lastOp = NoOp

(***************************************************************************)
(* src/network.rs                                                          *)
(***************************************************************************)
\* KnapRequest: Metadata(String), Chunk(String), Search(String)
RequestKinds == {"Metadata", "Chunk", "Search"}
KnapRequest  == [kind : RequestKinds, arg : Keys]
NoRequest    == [kind |-> "none", arg |-> ""]

RequestIds == 1..MaxRequests

\* SwarmEvent, as far as run() tells the events apart
NewListenAddr == [type |-> "NewListenAddr", event |-> "none", id |-> 0,
                  request |-> NoRequest]
\* any event of the `_` arm: ConnectionEstablished, IncomingConnection, ...
OtherEvent == [type |-> "Other", event |-> "none", id |-> 0, request |-> NoRequest]
\* SwarmEvent::Behaviour(RequestResponse(Message { Request { request_id,
\* request, channel } })): the event owns the ResponseChannel
RequestEvent(id, request) ==
    [type |-> "Behaviour", event |-> "Request", id |-> id, request |-> request]
\* SwarmEvent::Behaviour(RequestResponse(InboundFailure { request_id,
\* error: ResponseOmission })): the channel was dropped without a response
OmissionEvent(id) ==
    [type |-> "Behaviour", event |-> "ResponseOmission", id |-> id,
     request |-> NoRequest]

NoLine == [line |-> "none", event |-> OtherEvent]

\* NetworkManager::run up to the loop: listen_on, which the swarm reports
\* with NewListenAddr
Listen ==
    /\ pc = "start"
    /\ pc' = "loop"
    /\ swarm_events' = Append(swarm_events, NewListenAddr)
    /\ UNCHANGED <<inbound, stdout, videoVars, storeVars>>

\* a peer connects or disconnects: an event of the `_` arm
PeerConnects ==
    /\ pc = "loop"
    /\ Len(swarm_events) < MaxQueue
    /\ swarm_events' = Append(swarm_events, OtherEvent)
    /\ UNCHANGED <<pc, inbound, stdout, videoVars, storeVars>>

\* a peer sends a request on /knapsack/1.0.0 (ProtocolSupport::Full accepts
\* inbound streams); request ids are handed out in order
PeerRequest(id, request) ==
    /\ pc = "loop"
    /\ Len(swarm_events) < MaxQueue
    /\ inbound[id].state = "none"
    /\ \A j \in RequestIds : j < id => inbound[j].state # "none"
    /\ inbound' = [inbound EXCEPT ![id] = [state |-> "queued", request |-> request]]
    /\ swarm_events' = Append(swarm_events, RequestEvent(id, request))
    /\ UNCHANGED <<pc, stdout, videoVars, storeVars>>

\* what handling an event does to the inbound request it carries: the
\* Behaviour arm prints the event and drops it, and its ResponseChannel
\* with it; no arm calls send_response
AfterHandling(event, state) ==
    IF event.type = "Behaviour" /\ event.event = "Request" THEN "dropped"
    ELSE state

\* one iteration of the loop in NetworkManager::run
RunLoop ==
    /\ pc = "loop"
    /\ swarm_events # <<>>
    /\ LET event == Head(swarm_events)
       IN  /\ swarm_events' = Tail(swarm_events)
           /\ stdout' = CASE event.type = "NewListenAddr" ->
                                 [line |-> "Listening on", event |-> event]
                          [] event.type = "Behaviour" ->
                                 [line |-> "Network event", event |-> event]
                          [] OTHER -> stdout
           /\ inbound' = [id \in RequestIds |->
                            IF id = event.id
                            THEN [inbound[id] EXCEPT
                                    !.state = AfterHandling(event, inbound[id].state)]
                            ELSE inbound[id]]
    /\ UNCHANGED <<pc, videoVars, storeVars>>

\* the request-response behaviour reports a channel dropped unanswered
ResponseOmitted(id) ==
    /\ pc = "loop"
    /\ Len(swarm_events) < MaxQueue
    /\ inbound[id].state = "dropped"
    /\ inbound' = [inbound EXCEPT ![id].state = "omitted"]
    /\ swarm_events' = Append(swarm_events, OmissionEvent(id))
    /\ UNCHANGED <<pc, stdout, videoVars, storeVars>>

NextNet ==
    \/ Listen
    \/ PeerConnects
    \/ \E id \in RequestIds, request \in KnapRequest : PeerRequest(id, request)
    \/ RunLoop
    \/ \E id \in RequestIds : ResponseOmitted(id)

\* NetworkManager::new: nothing is listening, nothing was received
InitNet ==
    /\ pc = "start"
    /\ swarm_events = <<>>
    /\ inbound = [id \in RequestIds |-> [state |-> "none", request |-> NoRequest]]
    /\ stdout = NoLine

Init ==
    /\ InitVideo
    /\ InitStore
    /\ InitNet

\* the node as main runs it: the commands and the network task. main
\* constructs no Storage, so under Spec the store stays as InitStore has it.
Next == NextVideo \/ NextNet

Spec      == Init /\ [][Next]_vars
SpecVideo == Init /\ [][NextVideo]_vars
SpecStore == Init /\ [][NextStore]_vars
SpecNet   == Init /\ [][NextNet]_vars

(***************************************************************************)
(* The content addresser                                                   *)
(***************************************************************************)
ChunkIds(metadata) == [i \in 1..Len(metadata.chunks) |-> metadata.chunks[i].hash]

RECURSIVE Concat(_)
Concat(seqs) == IF seqs = <<>> THEN <<>> ELSE Head(seqs) \o Concat(Tail(seqs))

\* a hex string back to the bytes it encodes
HexVal(c) == IF c < 97 THEN c - 48 ELSE c - 87

RECURSIVE hex_decode(_)
hex_decode(str) ==
    IF Len(str) < 2 THEN <<>>
    ELSE <<HexVal(str[1]) * 16 + HexVal(str[2])>> \o hex_decode(SubSeq(str, 3, Len(str)))

\* the digest of the ordered concatenation of the chunk ids, as an id: of
\* the ids as the strings the metadata holds
DigestOfChunkIds(metadata) == hex_encode(Sha256_digest(Concat(ChunkIds(metadata))))

\* and of the ids as the 32-byte digests those strings encode
DigestOfRawChunkIds(metadata) ==
    hex_encode(Sha256_digest(Concat([i \in 1..Len(metadata.chunks) |->
                                        hex_decode(metadata.chunks[i].hash)])))

\* C4: the video id is the digest of the ordered concatenation of the
\* chunk ids (in either form of the ids).
C4_IdIsDigestOfChunkIds ==
    last.ok => \/ last.value.hash = DigestOfChunkIds(last.value)
               \/ last.value.hash = DigestOfRawChunkIds(last.value)

CeilDiv(n, s) == (n + s - 1) \div s

RECURSIVE SumSizes(_)
SumSizes(cs) == IF cs = <<>> THEN 0 ELSE Head(cs).size + SumSizes(Tail(cs))

\* the chunk list the claim describes for n bytes at chunk size s
ChunkedAt(cs, n, s) ==
    /\ Len(cs) = CeilDiv(n, s)
    /\ \A i \in 1..Len(cs) :
          /\ cs[i].order = i - 1
          /\ cs[i].size <= s
          /\ i < Len(cs) => cs[i].size = s
    /\ SumSizes(cs) = n

\* C5: a non-empty input of n bytes yields ceil(n/s) chunks
\* with orders 0..ceil(n/s)-1, all of size s but possibly the last, for
\* every chunk size s.
C5_ChunkedAtEverySize ==
    (last.ok /\ last.input # <<>>)
        => \A s \in 1..MaxLen : ChunkedAt(last.value.chunks, Len(last.input), s)

\* C6: a zero-length input fails with EmptyInput and returns no metadata.
C6_EmptyInputRejected ==
    (last.read /\ last.input = <<>>)
        => /\ ~last.ok
           /\ last.err = "EmptyInput"

(***************************************************************************)
(* The chunk store                                                         *)
(***************************************************************************)
\* C2: every stored chunk references a stored video, and a store_chunk
\* whose video was never stored fails.
C2_NoOrphanChunk ==
    /\ \A i \in 1..Len(chunks) : HasRow(videos, chunks[i].video_hash)
    /\ (lastOp.op = "store_chunk" /\ ~HasRow(videos, lastOp.video_hash))
           => lastOp.res # "Ok"

\* C3: the payload stored under a chunk id is never replaced by another.
C3_PayloadNeverOverwritten ==
    [][\A i \in 1..Len(chunks) :
          \E j \in 1..Len(chunks') :
              /\ chunks'[j].hash = chunks[i].hash
              /\ chunks'[j].data = chunks[i].data]_vars

\* C7: from every reachable state of the two tables, and for every hash
\* and metadata, store_video twice leaves the tables as store_video once.
C7_StoreVideoIdempotent ==
    \A hash \in Keys, metadata \in Blobs :
        LET once  == store_video(conn.foreign_keys, videos, chunks, hash, metadata)
            twice == store_video(conn.foreign_keys, once.videos, once.chunks,
                                 hash, metadata)
        IN  /\ once.res = "Ok"
            /\ twice.res = "Ok"
            /\ twice.videos = once.videos
            /\ twice.chunks = once.chunks

\* store_video was called twice in a row with the same arguments, on a
\* video that a stored chunk references, with another video stored too
C7_Witness ==
    /\ lastOp.op = "store_video"
    /\ lastOp.again
    /\ lastOp.res = "Ok"
    /\ Len(videos) = 2
    /\ \E i \in 1..Len(chunks) : chunks[i].video_hash = lastOp.hash

(***************************************************************************)
(* The network event loop                                                  *)
(***************************************************************************)
\* C8: an inbound request that the event loop has taken from the swarm is
\* answered. A request whose ResponseChannel was dropped can never be
\* answered, so a state that breaks this breaks the eventual answer too.
C8_HandledRequestAnswered ==
    \A id \in RequestIds :
        inbound[id].state \notin {"none", "queued"}
            => inbound[id].state = "responded"
====
